---- MODULE Spec2Model ----
(***************************************************************************)
(* A model of data/format_for_finetuning.py: the extraction of question /  *)
(* answer pairs from the sheets of a workbook, the merge of the JSON FAQ   *)
(* and the three output files.                                             *)
(*                                                                         *)
(* A Python str is a sequence of one-character strings, so that strip,     *)
(* the regular-expression substitutions, startswith, endswith and slicing  *)
(* are computed character by character.  None is the one-element sequence  *)
(* <<"<None>">>, which no text equals (its element is not one character).  *)
(***************************************************************************)
EXTENDS Integers, Sequences, FiniteSets

VARIABLES
    \* ---- main() and extract_qa_from_sheet() ----
    pc,                    \* position of the program
    wb,                    \* the workbook: a sequence of [name, rows]
    sheet_idx,             \* position of main's loop in wb.sheetnames (1-based)
    all_qa,                \* main: all_qa
    skipped,               \* main: skipped
    log,                   \* the "sheet -> n Q&A pairs" lines printed so far
    faq_data,              \* main: faq_data (None while not loaded / file absent)
    product_name,          \* extract_qa_from_sheet: product_name
    sorted_rows,           \* extract_qa_from_sheet: sorted_rows, as [row, text]
    start_idx,             \* extract_qa_from_sheet: start_idx (0-based, as in the code)
    row_pos,               \* position of the walk in sorted_rows[start_idx:] (1-based)
    current_question,      \* extract_qa_from_sheet: current_question
    current_answer_parts,  \* extract_qa_from_sheet: current_answer_parts
    qa_pairs,              \* extract_qa_from_sheet: qa_pairs
    sheet_name,            \* extract_qa_from_sheet: sheet_name
    returned,              \* TRUE once extract_qa_from_sheet has returned qa_pairs
    out_all,               \* records dumped to all_qa_pairs.json
    out_instruct,          \* records written to finetuning_data.jsonl, one per line
    out_chat,              \* records written to finetuning_data_chat.jsonl
    \* ---- clean_text() and is_question() applied to one text ----
    tpc,                   \* position of the text run
    text,                  \* the input text
    cleaned,               \* clean_text(text)
    cleaned2,              \* clean_text(cleaned)
    isq,                   \* is_question(text)
    join_in,               \* "\n".join([cleaned, part])
    join_out               \* clean_text(join_in)

mainVars == <<pc, wb, sheet_idx, all_qa, skipped, log, faq_data, product_name,
              sorted_rows, start_idx, row_pos, current_question,
              current_answer_parts, qa_pairs, sheet_name, returned, out_all, out_instruct,
              out_chat>>
textVars == <<tpc, text, cleaned, cleaned2, isq, join_in, join_out>>
vars == <<mainVars, textVars>>

-----------------------------------------------------------------------------
(* Bounds of the model *)

\* longest text enumerated character by character
MaxLen == 5
\* most body rows of a sheet of a one-sheet workbook
MaxRows == 3
\* most sheets of a several-sheet workbook
MaxSheets == 2

-----------------------------------------------------------------------------
(* Python values *)

None == <<"<None>">>

\* bool(x) of a str or None
Truthy(x) == x # None /\ x # <<>>

\* str.isspace() characters that the model's texts use
Whitespace == {" ", "\t", "\n", "\r"}

Min(a, b) == IF a <= b THEN a ELSE b

RECURSIVE LStrip(_)
LStrip(s) ==
    IF s = <<>> THEN <<>>
    ELSE IF Head(s) \in Whitespace THEN LStrip(Tail(s)) ELSE s

RECURSIVE RStrip(_)
RStrip(s) ==
    IF s = <<>> THEN <<>>
    ELSE IF s[Len(s)] \in Whitespace THEN RStrip(SubSeq(s, 1, Len(s) - 1)) ELSE s

\* str.strip()
Strip(s) == RStrip(LStrip(s))

LowerCase == <<"a","b","c","d","e","f","g","h","i","j","k","l","m",
               "n","o","p","q","r","s","t","u","v","w","x","y","z">>
UpperCase == <<"A","B","C","D","E","F","G","H","I","J","K","L","M",
               "N","O","P","Q","R","S","T","U","V","W","X","Y","Z">>

LowerChar(c) ==
    IF \E i \in 1..26 : UpperCase[i] = c
    THEN LowerCase[CHOOSE i \in 1..26 : UpperCase[i] = c]
    ELSE c

\* str.lower()
Lower(s) == [i \in 1..Len(s) |-> LowerChar(s[i])]

\* str.startswith(p)
StartsWith(s, p) == Len(p) <= Len(s) /\ SubSeq(s, 1, Len(p)) = p

\* str.endswith(p)
EndsWith(s, p) == Len(p) <= Len(s) /\ SubSeq(s, Len(s) - Len(p) + 1, Len(s)) = p

\* sep.join(parts)
RECURSIVE Join(_, _)
Join(sep, parts) ==
    IF parts = <<>> THEN <<>>
    ELSE IF Len(parts) = 1 THEN parts[1]
    ELSE parts[1] \o sep \o Join(sep, Tail(parts))

-----------------------------------------------------------------------------
(* clean_text *)

\* text.replace("\t", " ")
ReplaceTabs(s) == [i \in 1..Len(s) |-> IF s[i] = "\t" THEN " " ELSE s[i]]

\* the characters [^\S\n] matches: whitespace other than the newline
IsBlank(c) == c \in Whitespace /\ c # "\n"

RECURSIVE DropBlanks(_)
DropBlanks(s) ==
    IF s = <<>> THEN <<>>
    ELSE IF IsBlank(Head(s)) THEN DropBlanks(Tail(s)) ELSE s

\* the length of the longest prefix of s without a character of the set cs
PrefixWithout(s, cs) ==
    LET hits == {i \in 1..Len(s) : s[i] \in cs}
    IN  IF hits = {} THEN Len(s)
        ELSE (CHOOSE i \in hits : \A j \in hits : i <= j) - 1

\* a plausible slip: text.replace("  ", " "), one left-to-right pass over pairs
RECURSIVE CollapseSpacesPairwise(_)
CollapseSpacesPairwise(s) ==
    IF s = <<>> THEN <<>>
    ELSE IF Len(s) >= 2 /\ s[1] = " " /\ s[2] = " "
         THEN <<" ">> \o CollapseSpacesPairwise(Tail(Tail(s)))
         ELSE LET n == IF Head(s) = " " THEN 1 ELSE PrefixWithout(s, {" "})
              IN  SubSeq(s, 1, n)
                  \o CollapseSpacesPairwise(SubSeq(s, n + 1, Len(s)))

\* re.sub(r"[^\S\n]+", " ", text): each run of blanks becomes one space, the
\* text between the runs is copied
RECURSIVE CollapseSpaces(_)
CollapseSpaces(s) ==
    IF s = <<>> THEN <<>>
    ELSE IF IsBlank(Head(s)) THEN <<" ">> \o CollapseSpaces(DropBlanks(s))
    ELSE LET n == PrefixWithout(s, Whitespace \ {"\n"})
         IN  SubSeq(s, 1, n) \o CollapseSpaces(SubSeq(s, n + 1, Len(s)))

RECURSIVE DropNewlines(_)
DropNewlines(s) ==
    IF s = <<>> THEN <<>>
    ELSE IF Head(s) = "\n" THEN DropNewlines(Tail(s)) ELSE s

\* re.sub(r"\n{3,}", "\n\n", text): each run of three or more newlines
\* becomes two, shorter runs and the text between the runs are copied
RECURSIVE CollapseNewlines(_)
CollapseNewlines(s) ==
    IF s = <<>> THEN <<>>
    ELSE IF Head(s) = "\n"
         THEN LET rest == DropNewlines(s)
                  run  == Len(s) - Len(rest)
              IN  (IF run >= 3 THEN <<"\n", "\n">> ELSE SubSeq(s, 1, run))
                  \o CollapseNewlines(rest)
         ELSE LET n == PrefixWithout(s, {"\n"})
              IN  SubSeq(s, 1, n) \o CollapseNewlines(SubSeq(s, n + 1, Len(s)))

clean_text(t) ==
    IF t = <<>> THEN <<>>
    ELSE Strip(CollapseNewlines(CollapseSpaces(ReplaceTabs(Strip(t)))))

-----------------------------------------------------------------------------
(* is_question *)

\* the look-ahead of the last test: "?" in t[:80]
LookAhead == 80

q_starts == <<
    <<"w","h","a","t">>, <<"h","o","w">>, <<"i","s"," ">>, <<"i","s","\n">>,
    <<"c","a","n"," ">>, <<"c","a","n","\n">>, <<"d","o","e","s">>,
    <<"d","o"," ">>, <<"a","r","e"," ">>, <<"w","h","i","c","h">>,
    <<"w","h","o">>, <<"w","h","e","r","e">>, <<"w","h","e","n">>,
    <<"w","h","y">>,
    <<"i"," ","w","o","u","l","d"," ","l","i","k","e"," ","t","o">>,
    <<"i"," ","w","a","n","t"," ","t","o">>,
    <<"p","l","e","a","s","e"," ","t","e","l","l">>,
    <<"1",".">>, <<"1"," ",".">>, <<"1","-">> >>

\* a plausible slip: "?" in t, the look-ahead forgotten
is_question_no_lookahead(t0) ==
    LET t == Strip(t0) IN
    IF t = <<>> THEN FALSE
    ELSE IF EndsWith(t, <<"?">>) THEN TRUE
    ELSE IF LET lower == Lower(t)
            IN  \E k \in 1..Len(q_starts) : StartsWith(lower, q_starts[k])
         THEN TRUE
    ELSE \E i \in 1..Len(t) : t[i] = "?"

is_question(t0) ==
    LET t == Strip(t0) IN
    IF t = <<>> THEN FALSE
    ELSE IF EndsWith(t, <<"?">>) THEN TRUE
    ELSE IF LET lower == Lower(t)
            IN  \E k \in 1..Len(q_starts) : StartsWith(lower, q_starts[k])
         THEN TRUE
    ELSE IF \E i \in 1..Min(LookAhead, Len(t)) : t[i] = "?" THEN TRUE
    ELSE FALSE

-----------------------------------------------------------------------------
(* Constants of the program *)

\* SKIP_SHEETS = {"Main", "Rate Sheet July 1 2024", "Sheet1"}
SKIP_SHEETS == {
    <<"M","a","i","n">>,
    <<"R","a","t","e"," ","S","h","e","e","t"," ","J","u","l","y"," ","1",
      " ","2","0","2","4">>,
    <<"S","h","e","e","t","1">> }

\* the prompt of the system turn
SYSTEM_PROMPT ==
    <<"Y","o","u"," ","a","r","e"," ","a"," ","h","e","l","p","f","u","l",
      " ","c","u","s","t","o","m","e","r"," ","s","u","p","p","o","r","t",
      " ","a","s","s","i","s","t","a","n","t"," ","f","o","r"," ","N","U",
      "S","T"," ","B","a","n","k","."," ","A","n","s","w","e","r"," ","t",
      "h","e"," ","c","u","s","t","o","m","e","r","'","s"," ","q","u","e",
      "s","t","i","o","n"," ","a","c","c","u","r","a","t","e","l","y"," ",
      "a","n","d"," ","c","o","n","c","i","s","e","l","y"," ","u","s","i",
      "n","g"," ","t","h","e"," ","b","a","n","k","'","s"," ","p","r","o",
      "d","u","c","t"," ","k","n","o","w","l","e","d","g","e",".">>

\* "Mobile App \u2013 ": the en dash is the one element "U+2013"
MobileAppPrefix ==
    <<"M","o","b","i","l","e"," ","A","p","p"," ","U+2013"," ">>

\* the sheet label of the pairs merged from the JSON FAQ
FaqSheetLabel ==
    <<"f","u","n","d","s","_","t","r","a","n","s","f","e","r","_","a","p",
      "p","_","f","e","a","t","u","r","e","s","_","f","a","q",".","j","s",
      "o","n">>

\* cat.get("category", "General")
General == <<"G","e","n","e","r","a","l">>

\* " | ", the separator of the cell texts of one row
CellSeparator == <<" ", "|", " ">>

-----------------------------------------------------------------------------
(* Cells: cell.value is None, a str or a number; s is str(cell.value) *)

NoCell == [kind |-> "None", s |-> <<"N","o","n","e">>]
StrCell(chars) == [kind |-> "str", s |-> chars]
ZeroCell == [kind |-> "int", s |-> <<"0">>]

\* bool(cell.value)
CellTruthy(c) ==
    \/ c.kind = "str" /\ c.s # <<>>
    \/ c.kind = "int" /\ c.s # <<"0">>

\* str(cell.value).strip()
CellVal(c) == Strip(c.s)

IsMain(val) == Lower(val) = <<"m","a","i","n">>

IsFormula(val) == StartsWith(val, <<"=">>)

-----------------------------------------------------------------------------
(* extract_qa_from_sheet: product name, row texts, title row *)

\* the scan of the first row: the cell loop of lines 117-122, with its break
RECURSIVE ScanFirstRow(_, _)
ScanFirstRow(cells, fallback) ==
    IF cells = <<>> THEN fallback
    ELSE LET c == Head(cells) IN
         IF CellTruthy(c) /\ ~IsMain(CellVal(c))
         THEN IF ~IsFormula(CellVal(c))
              THEN CellVal(c)
              ELSE ScanFirstRow(Tail(cells), fallback)
         ELSE ScanFirstRow(Tail(cells), fallback)

\* product_name after the loop over ws.iter_rows(min_row=1, max_row=1)
InferProduct(ws) ==
    IF ws.rows = <<>> THEN ws.name ELSE ScanFirstRow(ws.rows[1], ws.name)

\* row_texts of one row
RECURSIVE RowTexts(_)
RowTexts(cells) ==
    IF cells = <<>> THEN <<>>
    ELSE LET c == Head(cells) IN
         IF c.kind = "None" THEN RowTexts(Tail(cells))
         ELSE IF IsFormula(CellVal(c)) \/ IsMain(CellVal(c)) \/ CellVal(c) = <<>>
              THEN RowTexts(Tail(cells))
              ELSE <<CellVal(c)>> \o RowTexts(Tail(cells))

\* combined
Combined(row_texts) ==
    IF Len(row_texts) > 1 THEN Join(CellSeparator, row_texts) ELSE row_texts[1]

\* rows_data, as the set of its (row_num, text) items
RowsData(ws) ==
    { [row |-> r, text |-> Combined(RowTexts(ws.rows[r]))] :
        r \in { i \in 1..Len(ws.rows) : RowTexts(ws.rows[i]) # <<>> } }

\* sorted(rows_data.items())
RECURSIVE Sorted(_)
Sorted(items) ==
    IF items = {} THEN <<>>
    ELSE LET m == CHOOSE x \in items : \A y \in items : x.row <= y.row
         IN  <<m>> \o Sorted(items \ {m})

\* start_idx
StartIdx(rows, product) ==
    IF rows # <<>> /\ Strip(rows[1].text) = Strip(product) THEN 1 ELSE 0

-----------------------------------------------------------------------------
(* extract_qa_from_sheet: the walk over sorted_rows[start_idx:] *)

QAPair(q, a, product, sheet) ==
    [question |-> q, answer |-> a, product |-> product, sheet |-> sheet]

\* the pair appended when a question with answer parts is closed (lines
\* 163-172 and 188-197); st is [q, parts, pairs]
Emit(st, product, sheet) ==
    IF Truthy(st.q) /\ st.parts # <<>>
    THEN LET answer == clean_text(Join(<<"\n">>, st.parts)) IN
         IF answer # <<>>
         THEN Append(st.pairs, QAPair(clean_text(st.q), answer, product, sheet))
         ELSE st.pairs
    ELSE st.pairs

\* a plausible slip: current_answer_parts = [] forgotten at a new question
WalkStepKeepParts(st, raw, product, sheet) ==
    LET txt == clean_text(raw) IN
    IF txt = <<>> THEN st
    ELSE IF is_question(txt)
         THEN [q |-> txt, parts |-> st.parts, pairs |-> Emit(st, product, sheet)]
         ELSE IF Truthy(st.q)
              THEN [st EXCEPT !.parts = Append(@, txt)]
              ELSE st

\* the body of the loop of lines 156-185 on one row text
WalkStep(st, raw, product, sheet) ==
    LET txt == clean_text(raw) IN
    IF txt = <<>> THEN st
    ELSE IF is_question(txt)
         THEN [q |-> txt, parts |-> <<>>, pairs |-> Emit(st, product, sheet)]
         ELSE IF Truthy(st.q)
              THEN [st EXCEPT !.parts = Append(@, txt)]
              ELSE st

\* a plausible slip: the last Q&A forgotten
FlushForgotten(st, product, sheet) == st.pairs

\* "Don't forget the last Q&A": lines 188-199
Flush(st, product, sheet) == Emit(st, product, sheet)

\* a plausible slip: current_question kept from the sheet before
CarriedQuestion == current_question

\* current_question = None
FreshQuestion == None

RECURSIVE Walk(_, _, _, _)
Walk(st, rows, product, sheet) ==
    IF rows = <<>> THEN st
    ELSE Walk(WalkStep(st, Head(rows).text, product, sheet), Tail(rows),
              product, sheet)

\* extract_qa_from_sheet(ws, sheet_name) as a function of the sheet alone
ExtractQA(ws) ==
    LET product == InferProduct(ws)
        rows    == Sorted(RowsData(ws))
        start   == StartIdx(rows, product)
    IN  IF rows = <<>> THEN <<>>
        ELSE Flush(Walk([q |-> None, parts |-> <<>>, pairs |-> <<>>],
                        SubSeq(rows, start + 1, Len(rows)), product, ws.name),
                   product, ws.name)

-----------------------------------------------------------------------------
(* The text run: clean_text and is_question applied to one input text *)

\* the characters of the texts enumerated up to MaxLen
TextAlphabet == {"a", " ", "\t", "\n", "?"}

ShortTexts == UNION {[1..n -> TextAlphabet] : n \in 0..MaxLen}

Filler(n) == [i \in 1..n |-> "a"]

Capitalize(s) ==
    [i \in 1..Len(s) |->
        IF i = 1 /\ \E j \in 1..26 : LowerCase[j] = s[1]
        THEN UpperCase[CHOOSE j \in 1..26 : LowerCase[j] = s[1]]
        ELSE s[i]]

\* each phrase of q_starts: alone, capitalized, followed by more text, after
\* leading whitespace, after other text, and cut short by one character
PhraseTexts ==
    UNION { { q_starts[k],
              Capitalize(q_starts[k]),
              q_starts[k] \o <<"x">>,
              <<" ", "\n">> \o q_starts[k] \o <<"x", " ">>,
              <<"x">> \o q_starts[k],
              SubSeq(q_starts[k], 1, Len(q_starts[k]) - 1) \o <<"x">> }
            : k \in 1..Len(q_starts) }

\* texts with a question mark around the look-ahead's end
LongTexts ==
    UNION { { Filler(n) \o <<"?", "a">>,
              <<" ">> \o Filler(n) \o <<"?", "a">>,
              Filler(n) \o <<"?", "a", " ">>,
              Filler(n) \o <<"a", "?">> }
            : n \in (LookAhead - 2)..(LookAhead + 1) }

TextInputs == ShortTexts \cup PhraseTexts \cup LongTexts

\* already normalized answer parts joined to the cleaned text
JoinParts == { <<"b">>, <<"b", "\n", "\n", "c", " ", "d">> }

MainIdle ==
    /\ pc = "idle"
    /\ wb = <<>>
    /\ sheet_idx = 1
    /\ all_qa = <<>>
    /\ skipped = <<>>
    /\ log = <<>>
    /\ faq_data = None
    /\ product_name = None
    /\ sorted_rows = <<>>
    /\ start_idx = 0
    /\ row_pos = 1
    /\ current_question = None
    /\ current_answer_parts = <<>>
    /\ qa_pairs = <<>>
    /\ sheet_name = None
    /\ returned = FALSE
    /\ out_all = <<>>
    /\ out_instruct = <<>>
    /\ out_chat = <<>>

TextIdle ==
    /\ tpc = "idle"
    /\ text = <<>>
    /\ cleaned = None
    /\ cleaned2 = None
    /\ isq = FALSE
    /\ join_in = None
    /\ join_out = None

InitText ==
    /\ MainIdle
    /\ tpc = "input"
    /\ text \in TextInputs
    /\ cleaned = None
    /\ cleaned2 = None
    /\ isq = FALSE
    /\ join_in = None
    /\ join_out = None

CallIsQuestion ==
    /\ tpc = "input"
    /\ isq' = is_question(text)
    /\ tpc' = "classified"
    /\ UNCHANGED <<text, cleaned, cleaned2, join_in, join_out, mainVars>>

CallCleanText ==
    /\ tpc = "classified"
    /\ cleaned' = clean_text(text)
    /\ tpc' = "cleaned"
    /\ UNCHANGED <<text, cleaned2, isq, join_in, join_out, mainVars>>

CallCleanTextAgain ==
    /\ tpc = "cleaned"
    /\ cleaned2' = clean_text(cleaned)
    /\ tpc' = "recleaned"
    /\ UNCHANGED <<text, cleaned, isq, join_in, join_out, mainVars>>

\* answer = "\n".join(current_answer_parts); answer = clean_text(answer),
\* on parts that clean_text returned and  if not text: continue  let through
CallJoinClean ==
    /\ tpc = "recleaned"
    /\ cleaned # <<>>
    /\ \E part \in JoinParts :
          /\ join_in' = Join(<<"\n">>, <<cleaned, part>>)
          /\ join_out' = clean_text(Join(<<"\n">>, <<cleaned, part>>))
    /\ tpc' = "joined"
    /\ UNCHANGED <<text, cleaned, cleaned2, isq, mainVars>>

NextText == CallIsQuestion \/ CallCleanText \/ CallCleanTextAgain \/ CallJoinClean

SpecText == InitText /\ [][NextText]_vars

-----------------------------------------------------------------------------
(* main: the FAQ merge and the records of the three output files *)

\* the pairs appended for faq_data (lines 228-236); a category is
\* [category, questions], category None when the key is absent
RECURSIVE FaqQuestions(_, _)
FaqQuestions(cat_name, qs) ==
    IF qs = <<>> THEN <<>>
    ELSE <<QAPair(clean_text(Head(qs).question), clean_text(Head(qs).answer),
                  MobileAppPrefix \o cat_name, FaqSheetLabel)>>
         \o FaqQuestions(cat_name, Tail(qs))

RECURSIVE FaqPairs(_)
FaqPairs(cats) ==
    IF cats = <<>> THEN <<>>
    ELSE LET cat == Head(cats)
             cat_name == IF cat.category = None THEN General ELSE cat.category
         IN  FaqQuestions(cat_name, cat.questions) \o FaqPairs(Tail(cats))

\* the record of one line of finetuning_data.jsonl
InstructRecord(qa) ==
    [instruction |-> qa.question, input |-> <<>>, output |-> qa.answer,
     product |-> qa.product]

\* a plausible slip: the user and assistant contents exchanged
ChatRecordSwapped(qa) ==
    [messages |-> << [role |-> "system", content |-> SYSTEM_PROMPT],
                     [role |-> "user", content |-> qa.answer],
                     [role |-> "assistant", content |-> qa.question] >>]

\* the record of one line of finetuning_data_chat.jsonl
ChatRecord(qa) ==
    [messages |-> << [role |-> "system", content |-> SYSTEM_PROMPT],
                     [role |-> "user", content |-> qa.question],
                     [role |-> "assistant", content |-> qa.answer] >>]

\* a plausible slip: "Sheet1" missing from the skip set
InSkipSheetsShort(name) ==
    name \in SKIP_SHEETS \ { <<"S","h","e","e","t","1">> }

\* sheet_name in SKIP_SHEETS
InSkipSheets(name) == name \in SKIP_SHEETS

-----------------------------------------------------------------------------
(* The inputs: workbooks and FAQ files *)

TitleT == <<"T">>
QuestionQ == <<"Q", "?">>

\* first rows of a sheet
FirstRows == {
    <<StrCell(<<" ", "T">>)>>,
    <<NoCell, StrCell(<<"=", "A", "1">>), StrCell(<<"M","a","i","n">>),
      StrCell(TitleT), StrCell(<<"U">>)>>,
    <<StrCell(<<" ">>), StrCell(TitleT)>>,
    <<ZeroCell, StrCell(TitleT)>>,
    <<NoCell, StrCell(<<"m","a","i","n">>)>>,
    <<StrCell(QuestionQ)>>,
    <<StrCell(TitleT), StrCell(QuestionQ)>> }

\* rows below the first one
BodyRows == {
    <<StrCell(QuestionQ)>>,
    <<StrCell(<<"a">>)>>,
    <<NoCell, StrCell(<<"b", "\n", "\n", "\n", "c", "\t", " ", "d">>),
      StrCell(<<" ">>)>>,
    <<NoCell, StrCell(<<"=", "A", "1">>)>>,
    <<StrCell(<<"H", "o", "w">>), ZeroCell>> }

Sav == <<"S","a","v">>
Loan == <<"L","o","a","n">>

BodySeqs == UNION {[1..n -> BodyRows] : n \in 0..MaxRows}

\* workbooks of one sheet: every first row over every sequence of body rows
OneSheetWorkbooks ==
    { << [name |-> Sav, rows |-> <<f>> \o b] >> : f \in FirstRows, b \in BodySeqs }
    \cup { << [name |-> Sav, rows |-> <<>>] >> }

SheetNames == { <<"M","a","i","n">>, <<"S","h","e","e","t","1">>, Sav, Loan }

\* rows of the sheets of a workbook of several sheets
SheetRows == {
    \* title, a pair, and a question left pending at the end of the sheet
    << <<StrCell(TitleT)>>, <<StrCell(QuestionQ)>>, <<StrCell(<<"a">>)>>,
       <<StrCell(<<"H", "o", "w">>)>> >>,
    \* no title: an answer row first, then a pair
    << <<NoCell>>, <<StrCell(<<"b">>)>>, <<StrCell(QuestionQ)>>,
       <<StrCell(<<"c">>)>> >>,
    \* nothing but a sentinel
    << <<StrCell(<<"M","a","i","n">>)>> >> }

SheetPool == { [name |-> n, rows |-> r] : n \in SheetNames, r \in SheetRows }

\* sheet names are unique in a workbook
ManySheetWorkbooks ==
    { w \in UNION {[1..n -> SheetPool] : n \in 2..MaxSheets} :
        \A i, j \in 1..Len(w) : i # j => w[i].name # w[j].name }

Workbooks == OneSheetWorkbooks \cup ManySheetWorkbooks

\* faq_data.get("categories", []) of the FAQ files
FaqPool == {
    \* two categories, the second without a name
    << [category |-> <<"C">>,
        questions |-> << [question |-> <<" ", "H", "o", "w", "?">>,
                          answer |-> <<"x", "\t", " ", "y">>] >>],
       [category |-> None,
        questions |-> << [question |-> QuestionQ, answer |-> <<"a">>] >>] >>,
    \* an entry whose answer is blank
    << [category |-> <<"C">>,
        questions |-> << [question |-> QuestionQ, answer |-> <<" ">>] >>] >>,
    \* no categories
    <<>> }

-----------------------------------------------------------------------------
(* main and extract_qa_from_sheet, step by step *)

Init ==
    /\ pc = "loop"
    /\ wb \in Workbooks
    /\ sheet_idx = 1
    /\ all_qa = <<>>
    /\ skipped = <<>>
    /\ log = <<>>
    /\ faq_data = None
    /\ product_name = None
    /\ sorted_rows = <<>>
    /\ start_idx = 0
    /\ row_pos = 1
    /\ current_question = None
    /\ current_answer_parts = <<>>
    /\ qa_pairs = <<>>
    /\ sheet_name = None
    /\ returned = FALSE
    /\ out_all = <<>>
    /\ out_instruct = <<>>
    /\ out_chat = <<>>
    /\ TextIdle

extractVars == <<product_name, sorted_rows, start_idx, row_pos, current_question,
                 current_answer_parts, qa_pairs, sheet_name, returned>>
outVars == <<out_all, out_instruct, out_chat>>

\* lines 211-213: a sheet of the skip set
SkipSheet ==
    /\ pc = "loop"
    /\ sheet_idx <= Len(wb)
    /\ InSkipSheets(wb[sheet_idx].name)
    /\ skipped' = Append(skipped, wb[sheet_idx].name)
    /\ sheet_idx' = sheet_idx + 1
    /\ UNCHANGED <<pc, wb, all_qa, log, faq_data, extractVars, outVars, textVars>>

\* lines 215-218 with lines 114-141: a sheet without any row text,
\* extract_qa_from_sheet returns []
ExtractEmptySheet ==
    /\ pc = "loop"
    /\ sheet_idx <= Len(wb)
    /\ ~InSkipSheets(wb[sheet_idx].name)
    /\ RowsData(wb[sheet_idx]) = {}
    /\ sheet_name' = wb[sheet_idx].name
    /\ product_name' = InferProduct(wb[sheet_idx])
    /\ sorted_rows' = <<>>
    /\ start_idx' = 0
    /\ row_pos' = 1
    /\ current_question' = None
    /\ current_answer_parts' = <<>>
    /\ qa_pairs' = <<>>
    /\ returned' = TRUE
    /\ log' = Append(log, [sheet |-> wb[sheet_idx].name, n |-> 0])
    /\ sheet_idx' = sheet_idx + 1
    /\ UNCHANGED <<pc, wb, all_qa, skipped, faq_data, outVars, textVars>>

\* lines 215-216 with lines 114-154: the call of extract_qa_from_sheet up
\* to the start of the walk
BeginExtract ==
    /\ pc = "loop"
    /\ sheet_idx <= Len(wb)
    /\ ~InSkipSheets(wb[sheet_idx].name)
    /\ RowsData(wb[sheet_idx]) # {}
    /\ sheet_name' = wb[sheet_idx].name
    /\ product_name' = InferProduct(wb[sheet_idx])
    /\ sorted_rows' = Sorted(RowsData(wb[sheet_idx]))
    /\ start_idx' = StartIdx(Sorted(RowsData(wb[sheet_idx])),
                             InferProduct(wb[sheet_idx]))
    /\ row_pos' = 1
    /\ current_question' = FreshQuestion
    /\ current_answer_parts' = <<>>
    /\ qa_pairs' = <<>>
    /\ returned' = FALSE
    /\ pc' = "rows"
    /\ UNCHANGED <<wb, sheet_idx, all_qa, skipped, log, faq_data, outVars,
                   textVars>>

\* lines 156-185: one row of sorted_rows[start_idx:]
WalkRow ==
    /\ pc = "rows"
    /\ start_idx + row_pos <= Len(sorted_rows)
    /\ LET st == WalkStep([q |-> current_question,
                           parts |-> current_answer_parts,
                           pairs |-> qa_pairs],
                          sorted_rows[start_idx + row_pos].text,
                          product_name, sheet_name)
       IN  /\ current_question' = st.q
           /\ current_answer_parts' = st.parts
           /\ qa_pairs' = st.pairs
    /\ row_pos' = row_pos + 1
    /\ UNCHANGED <<pc, wb, sheet_idx, all_qa, skipped, log, faq_data,
                   product_name, sorted_rows, start_idx, sheet_name, returned,
                   outVars, textVars>>

\* lines 187-199 and 217-218: the last pair, the return, all_qa.extend(pairs)
EndExtract ==
    /\ pc = "rows"
    /\ start_idx + row_pos > Len(sorted_rows)
    /\ LET pairs == Flush([q |-> current_question,
                           parts |-> current_answer_parts,
                           pairs |-> qa_pairs], product_name, sheet_name)
       IN  /\ qa_pairs' = pairs
           /\ all_qa' = all_qa \o pairs
           /\ log' = Append(log, [sheet |-> sheet_name, n |-> Len(pairs)])
    /\ returned' = TRUE
    /\ sheet_idx' = sheet_idx + 1
    /\ pc' = "loop"
    /\ UNCHANGED <<wb, skipped, faq_data, product_name, sorted_rows, start_idx,
                   row_pos, current_question, current_answer_parts, sheet_name,
                   outVars, textVars>>

\* line 225: the FAQ file does not exist
NoFaqFile ==
    /\ pc = "loop"
    /\ sheet_idx > Len(wb)
    /\ pc' = "write_all"
    /\ UNCHANGED <<wb, sheet_idx, all_qa, skipped, log, faq_data, extractVars,
                   outVars, textVars>>

\* lines 225-236: the FAQ file exists and is merged
MergeFaq ==
    /\ pc = "loop"
    /\ sheet_idx > Len(wb)
    /\ \E cats \in FaqPool :
          /\ faq_data' = cats
          /\ all_qa' = all_qa \o FaqPairs(cats)
    /\ pc' = "write_all"
    /\ UNCHANGED <<wb, sheet_idx, skipped, log, extractVars, outVars, textVars>>

\* lines 243-244
WriteAll ==
    /\ pc = "write_all"
    /\ out_all' = all_qa
    /\ pc' = "write_instruct"
    /\ UNCHANGED <<wb, sheet_idx, all_qa, skipped, log, faq_data, extractVars,
                   out_instruct, out_chat, textVars>>

\* lines 249-257
WriteInstruct ==
    /\ pc = "write_instruct"
    /\ out_instruct' = [i \in 1..Len(all_qa) |-> InstructRecord(all_qa[i])]
    /\ pc' = "write_chat"
    /\ UNCHANGED <<wb, sheet_idx, all_qa, skipped, log, faq_data, extractVars,
                   out_all, out_chat, textVars>>

\* lines 262-271
WriteChat ==
    /\ pc = "write_chat"
    /\ out_chat' = [i \in 1..Len(all_qa) |-> ChatRecord(all_qa[i])]
    /\ pc' = "done"
    /\ UNCHANGED <<wb, sheet_idx, all_qa, skipped, log, faq_data, extractVars,
                   out_all, out_instruct, textVars>>

Next ==
    \/ SkipSheet
    \/ ExtractEmptySheet
    \/ BeginExtract
    \/ WalkRow
    \/ EndExtract
    \/ NoFaqFile
    \/ MergeFaq
    \/ WriteAll
    \/ WriteInstruct
    \/ WriteChat

Spec == Init /\ [][Next]_vars

-----------------------------------------------------------------------------
(* What the claims speak of *)

\* the worksheet extract_qa_from_sheet was called with
CurrentSheet == CHOOSE w \in {wb[i] : i \in 1..Len(wb)} : w.name = sheet_name

\* the RowUnits given to the segmenter: sorted_rows[start_idx:]
SegRows == SubSeq(sorted_rows, start_idx + 1, Len(sorted_rows))

\* the normalized texts of the RowUnits and their classes
Norms == [i \in 1..Len(SegRows) |-> clean_text(SegRows[i].text)]
Classes == [i \in 1..Len(SegRows) |-> is_question(clean_text(SegRows[i].text))]

\* the question rows directly followed by an answer row, isQ the classes
AnsweredQuestions(isQ) ==
    { i \in 1..Len(isQ) : isQ[i] /\ i < Len(isQ) /\ ~isQ[i + 1] }

\* the answer rows strictly between question row i and the next question
\* row (or the end): rows i+1 .. LastAnswer(isQ, i)
LastAnswer(isQ, i) ==
    CHOOSE e \in i..Len(isQ) :
        /\ \A j \in (i + 1)..e : ~isQ[j]
        /\ e < Len(isQ) => isQ[e + 1]

ExpectedPairs ==
    LET norm == Norms
        isQ  == Classes
        aq   == AnsweredQuestions(isQ)
        nth(k) == CHOOSE i \in aq : Cardinality({j \in aq : j < i}) = k - 1
        ws   == CurrentSheet
    IN  [k \in 1..Cardinality(aq) |->
            LET i == nth(k) IN
            [question |-> norm[i],
             answer   |-> clean_text(Join(<<"\n">>,
                              [m \in 1..(LastAnswer(isQ, i) - i) |-> norm[i + m]])),
             product  |-> InferProduct(ws),
             sheet    |-> ws.name]]

\* the results of the first k sheets, each extracted on its own, in order
RECURSIVE ConcatResults(_)
ConcatResults(k) ==
    IF k = 0 THEN <<>>
    ELSE ConcatResults(k - 1)
         \o (IF wb[k].name \in SKIP_SHEETS THEN <<>> ELSE ExtractQA(wb[k]))

\* the product name the spec describes: the text of the first cell of the
\* first row that is non-empty, not the sentinel and not a formula
RECURSIVE ClaimedScan(_, _)
ClaimedScan(cells, fallback) ==
    IF cells = <<>> THEN fallback
    ELSE LET c == Head(cells) IN
         IF /\ c.kind # "None"
            /\ CellVal(c) # <<>>
            /\ ~IsMain(CellVal(c))
            /\ ~IsFormula(CellVal(c))
         THEN CellVal(c)
         ELSE ClaimedScan(Tail(cells), fallback)

ClaimedProduct(ws) ==
    IF ws.rows = <<>> THEN ws.name ELSE ClaimedScan(ws.rows[1], ws.name)

-----------------------------------------------------------------------------
(* The claims *)

\* C1: every QAPair of the run-wide collection, extracted from a sheet or
\* merged from the FAQ, has a question and an answer that are non-empty
\* after normalization.  (The FAQ merge appends blank entries as they are.)
C1_QuestionAnswerNonEmpty ==
    \A i \in 1..Len(all_qa) :
        /\ clean_text(all_qa[i].question) # <<>>
        /\ clean_text(all_qa[i].answer) # <<>>

\* C2: the number of pairs a sheet yields is the number of question rows
\* directly followed by an answer row: a question followed by a question or
\* by the end, and answers before the first question, yield nothing.
C2_PairCount ==
    returned => Len(qa_pairs) = Cardinality(AnsweredQuestions(Classes))

\* a sheet with an answer row first and a question directly followed by a
\* question, which yet yields a pair
C2_Witness ==
    /\ returned
    /\ Len(SegRows) >= 4
    /\ ~Classes[1]
    /\ \E i \in 1..(Len(SegRows) - 1) : Classes[i] /\ Classes[i + 1]
    /\ Len(qa_pairs) = 1

\* C3: each pair's question is the normalized text of a question row, its
\* answer the normalized newline-join, in row order, of exactly the answer
\* rows up to the next question row; pairs come in the order of their
\* question rows and carry the sheet's product name and sheet name.
C3_PairContents ==
    returned => qa_pairs = ExpectedPairs

\* a sheet of four RowUnits that yields one pair, its answer of two rows
C3_Witness ==
    /\ returned
    /\ Len(SegRows) = 4
    /\ Len(qa_pairs) = 1
    /\ \E i \in AnsweredQuestions(Classes) : LastAnswer(Classes, i) - i = 2

\* C4: every QAPair of the run-wide collection has a non-empty product and
\* a non-empty sheet, whatever the first row of its sheet holds.  (A blank
\* first cell is taken as the product name.)
C4_ProvenanceNonEmpty ==
    \A i \in 1..Len(all_qa) :
        /\ all_qa[i].product # <<>>
        /\ all_qa[i].sheet # <<>>

\* C5: a sheet of the skip set is never extracted (no walk, no log line,
\* it is recorded as skipped) and no pair of the collection bears its name.
C5_SkippedSheetsYieldNothing ==
    /\ \A i \in 1..Len(all_qa) : all_qa[i].sheet \notin SKIP_SHEETS
    /\ \A i \in 1..Len(log) : log[i].sheet \notin SKIP_SHEETS
    /\ sheet_name \notin SKIP_SHEETS
    /\ \A k \in 1..(sheet_idx - 1) :
          wb[k].name \in SKIP_SHEETS =>
              \E j \in 1..Len(skipped) : skipped[j] = wb[k].name

\* the run is over, pairs were collected, and a skipped sheet held rows
\* that would have yielded a pair
C5_Witness ==
    /\ pc = "done"
    /\ all_qa # <<>>
    /\ \E k \in 1..Len(wb) :
          /\ wb[k].name = <<"S","h","e","e","t","1">>
          /\ ExtractQA(wb[k]) # <<>>

\* C6: between sheets the collection is the concatenation, in workbook
\* order, of each non-skipped sheet's own result: nothing of the walk of
\* one sheet (a pending question least of all) reaches the next.
C6_NoStateAcrossSheets ==
    pc = "loop" => all_qa = ConcatResults(sheet_idx - 1)

\* two sheets were extracted: the first ended on a pending question, the
\* second began with an answer row
C6_Witness ==
    /\ pc = "loop"
    /\ sheet_idx = 3
    /\ wb[1].name \notin SKIP_SHEETS
    /\ wb[2].name \notin SKIP_SHEETS
    /\ LET r1 == Sorted(RowsData(wb[1])) IN
          r1 # <<>> /\ is_question(clean_text(r1[Len(r1)].text))
    /\ returned
    /\ Len(SegRows) > 0
    /\ ~Classes[1]
    /\ Len(all_qa) = 2

\* C7: the product name is the text of the first cell of the first row
\* whose text is non-empty, not the sentinel and not a formula, else the
\* sheet's name.  (The code tests the truth of the raw value instead.)
C7_ProductInference ==
    (pc = "rows" \/ returned) => product_name = ClaimedProduct(CurrentSheet)

\* C9: the three outputs hold the same records: as many, and the i-th
\* instruction and chat record carry the i-th dumped question and answer,
\* the chat record after the fixed system turn.
C9_OutputsAgree ==
    pc = "done" =>
        /\ Len(out_instruct) = Len(out_all)
        /\ Len(out_chat) = Len(out_all)
        /\ \A i \in 1..Len(out_all) :
              /\ out_instruct[i].instruction = out_all[i].question
              /\ out_instruct[i].output = out_all[i].answer
              /\ Len(out_chat[i].messages) = 3
              /\ out_chat[i].messages[1] =
                    [role |-> "system", content |-> SYSTEM_PROMPT]
              /\ out_chat[i].messages[2] =
                    [role |-> "user", content |-> out_all[i].question]
              /\ out_chat[i].messages[3] =
                    [role |-> "assistant", content |-> out_all[i].answer]

\* the files are written from a collection of sheet pairs and FAQ pairs
C9_Witness ==
    /\ pc = "done"
    /\ Len(out_all) >= 3
    /\ \E i \in 1..Len(out_all) : out_all[i].sheet = FaqSheetLabel
    /\ \E i \in 1..Len(out_all) : out_all[i].sheet # FaqSheetLabel

C10_CleanTextIdempotent ==
    /\ tpc \in {"recleaned", "joined"} => cleaned2 = cleaned
    /\ tpc = "joined" => join_out = join_in

\* a text that clean_text changed inside (a run collapsed), cleaned again and joined
C10_Witness ==
    /\ tpc = "joined"
    /\ Len(cleaned) < Len(Strip(text))
    /\ cleaned2 = cleaned
    /\ join_out = join_in

====
